---- MODULE Spec2Model ----
(***************************************************************************)
(* Model of sayn/database/bigquery.py: the DDL validators, the feature      *)
(* lookup, Bigquery._introspect, Bigquery.create_table and fully_qualify.   *)
(*                                                                          *)
(* Python values are modelled as follows.  A str is a TLA+ string, None is  *)
(* the sentinel string None.  A dict is a function whose DOMAIN is the set  *)
(* of its keys (d.get(k, default) is Get).  Text produced by an f-string or *)
(* by + is a sequence of string pieces with no empty piece, so that the     *)
(* empty string is << >> and concatenation is \o.                           *)
(***************************************************************************)
EXTENDS Integers, Sequences, FiniteSets, TLC

VARIABLES requested_objects, \* Bigquery._requested_objects
          seen,              \* per (dataset, object): what the catalog returned at its latest query
          last               \* the latest call: its arguments and what it returned or raised

vars == <<requested_objects, seen, last>>

\* ------------------------------------------------------------------ bounds
MaxCols == 2
MaxCluster == 2
MaxDatasets == 2

\* ------------------------------------------------------------------ values
None == "<None>"
EmptyDict == [k \in {} |-> TRUE]

Get(d, k, default) == IF k \in DOMAIN d THEN d[k] ELSE default

ToSet(s) == {s[i] : i \in 1..Len(s)}

\* sequences over S of length at most n
SeqsUpTo(S, n) == UNION {[1..k -> S] : k \in 0..n}

\* a str interpolated into text
Str(s) == IF s = "" THEN << >> ELSE <<s>>

\* ------------------------------------------------------------------ fully_qualify
fully_qualify(name, schema) ==
    (IF schema # None THEN Str(schema) \o <<".">> ELSE << >>) \o Str(name)

\* ------------------------------------------------------------------ DDL (pydantic model)
\* Python objects that the validators iterate over and hash carry their type.
PyNone == [py |-> "NoneType"]
PyStr(s) == [py |-> "str", val |-> s]
PyList(l) == [py |-> "list", val |-> l]
PyTuple(t) == [py |-> "tuple", val |-> t]

\* DDL.Properties(partition, cluster)
Properties(partition, cluster) ==
    [py |-> "Properties", partition |-> partition, cluster |-> cluster]

\* hash(o): a list is unhashable, a tuple is hashable when its items are
Hashable(o) ==
    CASE o.py = "list" -> FALSE
      [] o.py = "tuple" -> \A i \in 1..Len(o.val) : o.val[i].py # "list"
      [] OTHER -> TRUE

\* iter(v) of a pydantic model: the (field name, value) tuples, in field order
ModelIter(v) ==
    << PyTuple(<<PyStr("partition"), v.partition>>),
       PyTuple(<<PyStr("cluster"), v.cluster>>) >>

NoError == [type |-> None, msg |-> "", names |-> {}]
Error(type, msg, names) == [type |-> type, msg |-> msg, names |-> names]

\* @validator("columns", pre=True)
transform_str_cols(v) == [i \in 1..Len(v) |-> [name |-> v[i]]]

\* Counter([e.name for e in v])
Counter(v) ==
    [n \in {v[i].name : i \in 1..Len(v)} |-> Cardinality({i \in 1..Len(v) : v[i].name = n})]

\* @validator("columns")
columns_unique(v) ==
    LET dupes == {k \in DOMAIN Counter(v) : Counter(v)[k] > 1}
    IN  IF Cardinality(dupes) > 0
        THEN Error("ValueError", "Duplicate columns", dupes)
        ELSE NoError

\* @validator("properties"); values holds the fields validated so far
validate_properties(v, values) ==
    IF v # PyNone /\ v.cluster # PyNone
    THEN IF "columns" \notin DOMAIN values
         THEN Error("TypeError", "object of type 'NoneType' has no len()", {})
         ELSE IF Len(values["columns"]) > 0
              THEN IF \E i \in 1..Len(ModelIter(v)) : ~Hashable(ModelIter(v)[i])
                   THEN Error("TypeError", "unhashable type: 'list'", {})
                   ELSE LET missing_columns ==
                                ToSet(ModelIter(v))
                                  \ {PyStr(values["columns"][i].name) : i \in 1..Len(values["columns"])}
                        IN  IF Cardinality(missing_columns) > 0
                            THEN Error("ValueError",
                                       "Cluster contains columns not specified in the ddl",
                                       missing_columns)
                            ELSE NoError
              ELSE NoError
    ELSE NoError

\* DDL(columns=..., properties=...): the validators run in field order; a field whose
\* validator raised is left out of values, and the construction fails with all errors
DDL(columns, properties) ==
    LET cols == transform_str_cols(columns)
        e1 == columns_unique(cols)
        values == IF e1 = NoError THEN [columns |-> cols] ELSE EmptyDict
        e2 == validate_properties(properties, values)
    IN  [ok |-> e1 = NoError /\ e2 = NoError,
         errors |-> {e1, e2} \ {NoError}]

ColNames == {"x", "y", "z"}

ColumnLists == SeqsUpTo(ColNames, MaxCols)

PropertiesValues ==
    {PyNone} \cup
    {Properties(p, c) : p \in {PyNone, PyStr("x")},
                        c \in {PyNone} \cup {PyList(l) : l \in SeqsUpTo(ColNames, MaxCluster)}}

\* ------------------------------------------------------------------ Bigquery.feature
Features == {"CAN REPLACE TABLE", "CAN REPLACE VIEW", "CANNOT CHANGE SCHEMA"}

\* feature that raises on a name that is not declared
featureFailFast(f) == [raised |-> f \notin Features, value |-> f \in Features]

\* lines 85-90: a membership test, which never raises
feature(f) == [raised |-> FALSE, value |-> f \in Features]

\* ------------------------------------------------------------------ the catalog
Names == {"t"}
DatasetKeys == {None, "ds"}

\* Bigquery.dataset, the connection's default dataset
DefaultDataset == "dflt"

\* clustering_ordinal_position IS NULL
Null == << >>

Column(name, is_partition, ordinal) ==
    [column_name |-> name, is_partition |-> is_partition, clustering_ordinal_position |-> ordinal]

\* rows of the catalog query: the columns are aggregated ORDER BY
\* clustering_ordinal_position, NULLs first
DbObjects ==
    { [type |-> "BASE TABLE", columns |-> <<Column("x", FALSE, Null), Column("y", FALSE, Null)>>],
      [type |-> "BASE TABLE",
       columns |-> <<Column("z", TRUE, Null), Column("y", FALSE, <<1>>), Column("x", FALSE, <<2>>)>>],
      [type |-> "VIEW", columns |-> <<Column("x", FALSE, Null), Column("y", FALSE, Null)>>],
      [type |-> "MATERIALIZED VIEW",
       columns |-> <<Column("z", TRUE, Null), Column("x", FALSE, <<1>>)>>] }

NotFound == [type |-> None, columns |-> << >>]

\* self.read_data(query) raised
QueryError == [error |-> "CatalogQueryError"]

\* what read_data can return for a query about objects: one row per object found
QueryResults(objects) == UNION {[found -> DbObjects] : found \in SUBSET objects}

\* ------------------------------------------------------------------ Bigquery._introspect
\* lines 159-166: the fold over an object's columns
PartitionOf(columns) ==
    LET flagged == {i \in 1..Len(columns) : columns[i].is_partition = TRUE}
    IN  IF flagged = {} THEN None
        ELSE columns[CHOOSE i \in flagged : \A j \in flagged : j <= i].column_name

ClusterCols(columns) ==
    LET F[i \in 0..Len(columns)] ==
            IF i = 0 THEN << >>
            ELSE IF columns[i].clustering_ordinal_position # Null
                 THEN Append(F[i - 1], columns[i].column_name)
                 ELSE F[i - 1]
    IN  F[Len(columns)]

\* lines 154-157
KindOf(type) ==
    IF type = "BASE TABLE" THEN "table"
    ELSE IF type = "VIEW" THEN "view"
    ELSE None

\* lines 149-170: the entry stored for obj_name
ObjEntry(db_objects, obj_name) ==
    IF obj_name \in DOMAIN db_objects
    THEN LET db_object == db_objects[obj_name]
             kind == KindOf(db_object.type)
             part == PartitionOf(db_object.columns)
             cluster_cols == ClusterCols(db_object.columns)
         IN  CASE part # None /\ cluster_cols # << >> ->
                    [type |-> kind, partition |-> part, cluster |-> cluster_cols]
               [] part # None /\ cluster_cols = << >> ->
                    [type |-> kind, partition |-> part]
               [] part = None /\ cluster_cols # << >> ->
                    [type |-> kind, cluster |-> cluster_cols]
               [] OTHER -> [type |-> kind]
    ELSE [type |-> None]

\* lines 124-127
ResolveDataset(dataset) ==
    IF dataset = None \/ dataset = "" THEN DefaultDataset ELSE dataset

\* IntrospectDataset with line 149 as a setdefault: an entry that exists is kept when the
\* catalog returns no row for the object
IntrospectDatasetKeep(req, dataset, objects, db_objects) ==
    LET old == IF dataset \in DOMAIN req THEN req[dataset] ELSE EmptyDict
        new == [o \in DOMAIN old \cup objects |->
                   IF o \in objects /\ (o \in DOMAIN db_objects \/ o \notin DOMAIN old)
                   THEN ObjEntry(db_objects, o)
                   ELSE old[o]]
    IN  [k \in DOMAIN req \cup {dataset} |-> IF k = dataset THEN new ELSE req[k]]

\* lines 144-170: one dataset of the request, given the rows its query returned
IntrospectDataset(req, dataset, objects, db_objects) ==
    LET old == IF dataset \in DOMAIN req THEN req[dataset] ELSE EmptyDict
        new == [o \in DOMAIN old \cup objects |->
                   IF o \in objects
                   THEN ObjEntry(db_objects, o)
                   ELSE old[o]]
    IN  [k \in DOMAIN req \cup {dataset} |-> IF k = dataset THEN new ELSE req[k]]

\* the catalog's answer for each requested object of the dataset
SeenDataset(sn, dataset, objects, db_objects) ==
    [k \in DOMAIN sn \cup {<<dataset, o>> : o \in objects} |->
        IF k[1] = dataset /\ k[2] \in objects
        THEN Get(db_objects, k[2], NotFound)
        ELSE sn[k]]

\* lines 123-170: the datasets of one project, from the i-th on
RECURSIVE IntrospectDatasets(_, _, _, _)
IntrospectDatasets(st, datasets, results, i) ==
    IF i > Len(datasets) THEN st
    ELSE LET d == datasets[i]
             queried == [st EXCEPT !.queries = Append(@, ResolveDataset(d.dataset))]
         IN  IF results[i] = QueryError
             THEN [queried EXCEPT !.raised = "CatalogQueryError"]
             ELSE IntrospectDatasets(
                      [queried EXCEPT
                          !.req = IntrospectDataset(@, d.dataset, d.objects, results[i]),
                          !.seen = SeenDataset(@, d.dataset, d.objects, results[i])],
                      datasets, results, i + 1)

\* lines 118-170: the projects of the request, from the i-th on
RECURSIVE IntrospectProjects(_, _, _, _)
IntrospectProjects(st, to_introspect, results, i) ==
    IF i > Len(to_introspect) THEN st
    ELSE IF to_introspect[i].project # ""
         THEN [st EXCEPT !.raised = "ValueError: 3 level db objects are not currently supported"]
         ELSE LET after == IntrospectDatasets(st, to_introspect[i].datasets, results[i], 1)
              IN  IF after.raised # None THEN after
                  ELSE IntrospectProjects(after, to_introspect, results, i + 1)

_introspect(req, sn, to_introspect, results) ==
    IntrospectProjects([req |-> req, seen |-> sn, queries |-> << >>, raised |-> None],
                       to_introspect, results, 1)

\* ------------------------------------------------------------------ Bigquery.create_table
\* the statement rendered from the create_table.sql template, as one piece of text
CreateStatement == "<create_table.sql>"

\* OrEmptyStr without the `or ""`
OrEmptyStrIdentity(v) == v

\* ddl.get("partition") or ""
OrEmptyStr(v) == IF v = None \/ v = "" THEN "" ELSE v

\* DropStatement that drops a table whatever the introspected kind
DropStatementTableOnly(des_clustered, cluster_column, des_partitioned, partition_column, db_info, full_name) ==
    IF des_clustered = cluster_column /\ des_partitioned = partition_column
    THEN << >>
    ELSE <<"DROP TABLE IF EXISTS ">> \o full_name \o <<";\n">>

\* DropStatement that tests for a view and drops a table otherwise
DropStatementUnlessView(des_clustered, cluster_column, des_partitioned, partition_column, db_info, full_name) ==
    IF des_clustered = cluster_column /\ des_partitioned = partition_column
    THEN << >>
    ELSE IF Get(db_info, "type", None) = "view"
         THEN <<"DROP VIEW IF EXISTS ">> \o full_name \o <<";\n">>
         ELSE <<"DROP TABLE IF EXISTS ">> \o full_name \o <<";\n">>

\* lines 255-260
DropStatement(des_clustered, cluster_column, des_partitioned, partition_column, db_info, full_name) ==
    IF des_clustered = cluster_column /\ des_partitioned = partition_column
    THEN << >>
    ELSE IF Get(db_info, "type", None) = "table"
         THEN <<"DROP TABLE IF EXISTS ">> \o full_name \o <<";\n">>
         ELSE <<"DROP VIEW IF EXISTS ">> \o full_name \o <<";\n">>

\* DbInfo that takes an object without an entry not to exist
DbInfoAssumeAbsent(req, table, schema) ==
    IF schema \in DOMAIN req /\ table \in DOMAIN req[schema]
    THEN LET db_info == req[schema][table]
             object_type == Get(db_info, "type", None)
         IN  [db_info |-> db_info,
              table_exists |-> (object_type = "table"),
              view_exists |-> (object_type = "view"),
              partition_column |-> Get(db_info, "partition", ""),
              cluster_column |-> ToSet(Get(db_info, "cluster", << >>))]
    ELSE [db_info |-> EmptyDict,
          table_exists |-> FALSE,
          view_exists |-> FALSE,
          partition_column |-> "",
          cluster_column |-> {}]

\* lines 235-250: what create_table reads from _requested_objects
DbInfo(req, table, schema) ==
    IF schema \in DOMAIN req /\ table \in DOMAIN req[schema]
    THEN LET db_info == req[schema][table]
             object_type == Get(db_info, "type", None)
         IN  [db_info |-> db_info,
              table_exists |-> (object_type = "table"),
              view_exists |-> (object_type = "view"),
              partition_column |-> Get(db_info, "partition", ""),
              cluster_column |-> ToSet(Get(db_info, "cluster", << >>))]
    ELSE [db_info |-> EmptyDict,
          table_exists |-> TRUE,
          view_exists |-> TRUE,
          partition_column |-> "",
          cluster_column |-> {}]

\* lines 226-279.  select, replace, all_columns_have_type and **ddl only pass through to
\* the template, whose text is the single piece CreateStatement; render keeps the
\* arguments that create_table computes.
create_table(req, table, schema, ddl) ==
    LET full_name == fully_qualify(table, schema)
        info == DbInfo(req, table, schema)
        des_partitioned == OrEmptyStr(Get(ddl, "partition", None))
        des_clustered == ToSet(Get(ddl, "cluster", << >>))
        drop == DropStatement(des_clustered, info.cluster_column,
                              des_partitioned, info.partition_column,
                              info.db_info, full_name)
        can_replace_table == feature("CAN REPLACE TABLE")
        needs_cascade == feature("NEEDS CASCADE")
        cannot_specify_ddl_select == feature("CANNOT SPECIFY DDL IN SELECT")
    IN  IF can_replace_table.raised \/ needs_cascade.raised \/ cannot_specify_ddl_select.raised
        THEN [raised |-> TRUE, full_name |-> full_name, script |-> << >>, render |-> EmptyDict]
        ELSE [raised |-> FALSE,
              full_name |-> full_name,
              script |-> drop \o <<CreateStatement>>,
              render |-> [table_name |-> table,
                          full_name |-> full_name,
                          view_exists |-> info.view_exists,
                          table_exists |-> info.table_exists,
                          can_replace_table |-> can_replace_table.value,
                          needs_cascade |-> needs_cascade.value,
                          cannot_specify_ddl_select |-> cannot_specify_ddl_select.value]]

\* ------------------------------------------------------------------ inputs
PlanPartitions == {"", "z"}
PlanClusters == SeqsUpTo({"x", "y"}, MaxCluster)

\* the keyword arguments **ddl: DDL.get_ddl() leaves out a partition or cluster that is None
DdlArgs ==
    {EmptyDict}
      \cup {[partition |-> p] : p \in PlanPartitions}
      \cup {[cluster |-> c] : c \in PlanClusters}
      \cup {[partition |-> p, cluster |-> c] : p \in PlanPartitions, c \in PlanClusters}

Schemas == {None, "", "ds"}

\* the datasets of one project of a request: distinct keys, each with the objects asked for
DatasetRequests ==
    {r \in SeqsUpTo([dataset : DatasetKeys, objects : (SUBSET Names) \ {{}}], MaxDatasets) :
        Len(r) > 0 /\ \A i, j \in 1..Len(r) : i # j => r[i].dataset # r[j].dataset}

\* a three-level request: a project key that is not ""
ProjectRequest == [project |-> "proj", datasets |-> <<[dataset |-> "ds", objects |-> Names]>>]

\* to_introspect, in the mapping's iteration order
Requests ==
    {<<[project |-> "", datasets |-> d]>> : d \in DatasetRequests}
      \cup {<<ProjectRequest>>}
      \cup {<<ProjectRequest, [project |-> "", datasets |-> d]>> :
                d \in {r \in DatasetRequests : Len(r) = 1 /\ r[1].dataset = "ds"}}
      \cup {<<[project |-> "", datasets |-> d], ProjectRequest>> : d \in DatasetRequests}

\* what one query about objects can give: rows, or an error
Answers(objects) == QueryResults(objects) \cup {QueryError}

\* one answer for every query about the datasets of a project
RECURSIVE DatasetResults(_)
DatasetResults(datasets) ==
    IF datasets = << >> THEN {<< >>}
    ELSE {<<a>> \o rest : a \in Answers(Head(datasets).objects),
                          rest \in DatasetResults(Tail(datasets))}

\* one answer for every query the request can issue
RECURSIVE ResultsFor(_)
ResultsFor(to_introspect) ==
    IF to_introspect = << >> THEN {<< >>}
    ELSE {<<rs>> \o rest :
            rs \in (IF Head(to_introspect).project # "" THEN {<< >>}
                    ELSE DatasetResults(Head(to_introspect).datasets)),
            rest \in ResultsFor(Tail(to_introspect))}

\* ------------------------------------------------------------------ the state machine
Init ==
    /\ requested_objects = EmptyDict
    /\ seen = EmptyDict
    /\ last = [op |-> "init"]

\* an entry that records a partition column or cluster columns
HasLayout(entry) == "partition" \in DOMAIN entry \/ "cluster" \in DOMAIN entry

Introspect ==
    \E to_introspect \in Requests :
      \E results \in ResultsFor(to_introspect) :
        LET r == _introspect(requested_objects, seen, to_introspect, results)
        IN  /\ requested_objects' = r.req
            /\ seen' = r.seen
            /\ last' = [op |-> "_introspect",
                        projects |-> [i \in 1..Len(to_introspect) |-> to_introspect[i].project],
                        had_layout |-> {k \in DOMAIN seen : HasLayout(requested_objects[k[1]][k[2]])},
                        queries |-> r.queries,
                        raised |-> r.raised]

CreateTable ==
    \E table \in Names, schema \in Schemas, ddl \in DdlArgs :
        /\ last' = [op |-> "create_table", table |-> table, schema |-> schema, ddl |-> ddl,
                    out |-> create_table(requested_objects, table, schema, ddl)]
        /\ UNCHANGED <<requested_objects, seen>>

Next == Introspect \/ CreateTable

Spec == Init /\ [][Next]_vars

\* the DDL constructor alone, on every input within the bounds
BuildDDL ==
    \E columns \in ColumnLists, properties \in PropertiesValues :
        /\ last' = [op |-> "DDL", columns |-> columns, properties |-> properties,
                    out |-> DDL(columns, properties)]
        /\ UNCHANGED <<requested_objects, seen>>

NextDDL == BuildDDL

SpecDDL == Init /\ [][NextDDL]_vars

\* ------------------------------------------------------------------ properties
\* The latest call was create_table; Known: its object has an entry in _requested_objects.
LastCreate == last.op = "create_table"
Known == LastCreate /\ last.schema \in DOMAIN requested_objects
                    /\ last.table \in DOMAIN requested_objects[last.schema]
Entry == requested_objects[last.schema][last.table]

\* The two sides of the comparison, read off the entry and the keyword arguments.
ExistingKind == IF Known THEN Entry.type ELSE None
ExistingPartition == IF Known /\ "partition" \in DOMAIN Entry THEN Entry.partition ELSE ""
ExistingCluster == IF Known /\ "cluster" \in DOMAIN Entry THEN ToSet(Entry.cluster) ELSE {}
DesiredPartition == IF "partition" \in DOMAIN last.ddl THEN last.ddl.partition ELSE ""
DesiredCluster == IF "cluster" \in DOMAIN last.ddl THEN ToSet(last.ddl.cluster) ELSE {}
SameLayout == DesiredPartition = ExistingPartition /\ DesiredCluster = ExistingCluster

DropHeads == {"DROP TABLE IF EXISTS ", "DROP VIEW IF EXISTS "}
DropCount(script) == Cardinality({i \in 1..Len(script) : script[i] \in DropHeads})
DropScript(head) == <<head>> \o last.out.full_name \o <<";\n", CreateStatement>>

\* C1: against an introspected entry, when the desired partition equals the existing one
\* and the desired cluster columns equal the existing ones as sets (order ignored, an absent
\* side counting as "" / the empty set), the script is the create statement alone.
C1_NoDropWhenLayoutEqual ==
    (Known /\ SameLayout) =>
        /\ last.out.script = <<CreateStatement>>
        /\ DropCount(last.out.script) = 0

\* the cluster is the same set in another order, the partition is the same column
C1_Witness ==
    /\ Known
    /\ "cluster" \in DOMAIN Entry /\ "cluster" \in DOMAIN last.ddl
    /\ Len(last.ddl.cluster) = 2
    /\ last.ddl.cluster # Entry.cluster
    /\ SameLayout
    /\ DesiredPartition = "z"
    /\ last.out.script = <<CreateStatement>>

\* C2: when the desired partition or cluster set differs from the existing one, the script
\* holds exactly one DROP, before the create statement: DROP TABLE IF EXISTS <name> when the
\* introspected kind is table, DROP VIEW IF EXISTS <name> when it is view or unknown.
C2_OneDropBeforeCreate ==
    (LastCreate /\ ~SameLayout) =>
        /\ DropCount(last.out.script) = 1
        /\ last.out.script[1] \in DropHeads
        /\ last.out.script[Len(last.out.script)] = CreateStatement
        /\ ExistingKind = "table" => last.out.script = DropScript("DROP TABLE IF EXISTS ")
        /\ ExistingKind \in {"view", None} => last.out.script = DropScript("DROP VIEW IF EXISTS ")

C2_Witness ==
    /\ Known /\ ~SameLayout
    /\ Entry.type = "table"
    /\ last.schema = "ds"
    /\ last.out.script = <<"DROP TABLE IF EXISTS ", "ds", ".", "t", ";\n", CreateStatement>>

\* C3: every object a query was issued for has an entry under the dataset key it was
\* requested with, and when the catalog returned no row for it at its latest query the
\* entry is {"type": None} alone: no partition, no cluster.
C3_RequestedHasEntry ==
    \A k \in DOMAIN seen :
        /\ k[1] \in DOMAIN requested_objects
        /\ k[2] \in DOMAIN requested_objects[k[1]]
        /\ seen[k] = NotFound => requested_objects[k[1]][k[2]] = [type |-> None]

\* a successful call found no row for an object whose entry had a partition or a cluster
C3_Witness ==
    /\ last.op = "_introspect" /\ last.raised = None
    /\ \E k \in last.had_layout :
          /\ seen[k] = NotFound
          /\ requested_objects[k[1]][k[2]] = [type |-> None]

\* C4 as stated: against an entry recorded as kind Unknown, create_table never raises and
\* the script carries DROP VIEW IF EXISTS, for any desired DDL.
C4_UnknownAlwaysDropsView ==
    (Known /\ Entry.type = None) =>
        /\ ~last.out.raised
        /\ last.out.script = DropScript("DROP VIEW IF EXISTS ")

\* C4 amended: against an entry recorded as kind Unknown, create_table never raises and never
\* drops a table; it emits DROP VIEW IF EXISTS exactly when the desired partition or cluster
\* set differs from the entry's, and no DROP otherwise.
C4_UnknownDropsViewOnMismatch ==
    (Known /\ Entry.type = None) =>
        /\ ~last.out.raised
        /\ ~SameLayout => last.out.script = DropScript("DROP VIEW IF EXISTS ")
        /\ SameLayout => last.out.script = <<CreateStatement>>

\* an absent object, a DDL that declares a partition
C4_Witness ==
    /\ Known /\ Entry = [type |-> None]
    /\ seen[<<last.schema, last.table>>] = NotFound
    /\ DesiredPartition = "z"
    /\ last.out.script = DropScript("DROP VIEW IF EXISTS ")

\* C5: a request with a project key other than "" fails with the 3-level error before any
\* catalog query is issued and before _requested_objects is changed.
C5_RejectedBeforeAnyQuery ==
    [][(/\ last'.op = "_introspect"
        /\ \E i \in 1..Len(last'.projects) : last'.projects[i] # ""
        /\ last'.raised # "CatalogQueryError")
       => /\ last'.raised = "ValueError: 3 level db objects are not currently supported"
          /\ last'.queries = << >>
          /\ requested_objects' = requested_objects]_vars

\* the feature names create_table looks up
ConsultedFeatures == {"CAN REPLACE TABLE", "NEEDS CASCADE", "CANNOT SPECIFY DDL IN SELECT"}

\* C6 as stated: every feature name create_table consults is declared, or its lookup raises.
C6_UnknownFeatureFailsFast ==
    LastCreate => \A f \in ConsultedFeatures : f \in Features \/ last.out.raised

\* C6 amended: looking up a feature name that is not declared returns False and never
\* raises: create_table passes can_replace_table = True, needs_cascade = False,
\* cannot_specify_ddl_select = False to the renderer.
C6_UnknownFeatureIsFalse ==
    LastCreate =>
        /\ ~last.out.raised
        /\ last.out.render.can_replace_table = TRUE
        /\ last.out.render.needs_cascade = FALSE
        /\ last.out.render.cannot_specify_ddl_select = FALSE

C6_Witness ==
    /\ LastCreate
    /\ "NEEDS CASCADE" \notin Features
    /\ ~last.out.raised
    /\ last.out.render.needs_cascade = FALSE
    /\ last.out.script[Len(last.out.script)] = CreateStatement

\* C7: the qualified name is schema.name when schema is present and non-empty and name alone
\* when schema is None or "", and the DROP statement uses that name.
C7_QualifiedName ==
    LastCreate =>
        LET expected == IF last.schema = None \/ last.schema = ""
                        THEN <<last.table>>
                        ELSE <<last.schema, ".", last.table>>
        IN  /\ last.out.full_name = expected
            /\ DropCount(last.out.script) = 1 =>
                   \E head \in DropHeads :
                       last.out.script = <<head>> \o expected \o <<";\n", CreateStatement>>

\* what create_table returns for the same arguments when nothing was ever introspected
NeverIntrospected == create_table(EmptyDict, last.table, last.schema, last.ddl)

\* the latest call was about an object that introspection looked for and did not find
CheckedAbsent == Known /\ Entry.type = None /\ seen[<<last.schema, last.table>>] = NotFound

\* C8 as stated: a never-introspected object and one introspected and found absent get the
\* same drop decision and the same table_exists / view_exists, both false.
C8_AbsentLikeNeverChecked ==
    CheckedAbsent =>
        /\ last.out.script = NeverIntrospected.script
        /\ last.out.render.table_exists = NeverIntrospected.render.table_exists
        /\ last.out.render.view_exists = NeverIntrospected.render.view_exists
        /\ ~NeverIntrospected.render.table_exists /\ ~NeverIntrospected.render.view_exists

\* C8 amended: the two cases get the same drop decision, but the renderer is told
\* table_exists = view_exists = False for the object found absent and
\* table_exists = view_exists = True for the one never introspected.
C8_SameDropDifferentExists ==
    CheckedAbsent =>
        /\ last.out.script = NeverIntrospected.script
        /\ ~last.out.render.table_exists /\ ~last.out.render.view_exists
        /\ NeverIntrospected.render.table_exists /\ NeverIntrospected.render.view_exists

C8_Witness ==
    /\ CheckedAbsent
    /\ ~SameLayout
    /\ last.out.script = NeverIntrospected.script
    /\ DropCount(last.out.script) = 1
    /\ last.out.render.table_exists # NeverIntrospected.render.table_exists

\* the DDL constructor's arguments in the latest call
LastDDL == last.op = "DDL"
ClusterDeclared == LastDDL /\ last.properties # PyNone /\ last.properties.cluster # PyNone
DeclaredColumns == ToSet(last.columns)
MissingFromColumns == ToSet(last.properties.cluster.val) \ DeclaredColumns

\* C9: with a cluster declared, a non-empty column list and a cluster column that is not a
\* declared column, construction fails with the cluster-mismatch error, which reports
\* exactly the cluster columns missing from the declared columns.
C9_ClusterMismatchReported ==
    (ClusterDeclared /\ Len(last.columns) > 0 /\ MissingFromColumns # {}) =>
        /\ ~last.out.ok
        /\ \E e \in last.out.errors :
              /\ e.msg = "Cluster contains columns not specified in the ddl"
              /\ e.names = MissingFromColumns

\* C10: construction succeeds whenever the column names are pairwise distinct and every
\* declared cluster column is a declared column, for any partition.
C10_ValidDDLAccepted ==
    (/\ LastDDL
     /\ Cardinality(DeclaredColumns) = Len(last.columns)
     /\ ClusterDeclared => MissingFromColumns = {})
    => last.out.ok

====
